---- MODULE Spec2Model ----
(***************************************************************************)
(* Model of hes-editor/src/inputs.rs: the reactive form-input widgets      *)
(* (NumericInput, OptionalNumericInput, the composite map inputs,          *)
(* MultiEnumInput and ImageInput).                                         *)
(*                                                                         *)
(* A host binding (Signal<T>, SignalSetter<T>) is one variable: the        *)
(* setter half assigns it, the accessor half reads it.  A widget's local   *)
(* signals (create_rw_signal) are variables of their own.  One action is   *)
(* one event handler, run to completion, the reactive effects it triggers  *)
(* included.  The variable ev is a history variable: the event that made   *)
(* the last step and the calls of the outer setter the widget made during  *)
(* it.                                                                     *)
(***************************************************************************)
EXTENDS Integers, Sequences, FiniteSets

VARIABLES
    num_value,      \* NumericInput: the bound value (signal, line 57)
    num_maybe_val,  \* NumericInput: maybe_val, the last parse result (line 62)
    num_last,       \* history: the text of the widget's most recent input event
    opt_outer,      \* OptionalNumericInput: the bound Option<T> (signal, line 98)
    opt_maybe_val,  \* OptionalNumericInput: maybe_val (line 103)
    opt_cache,      \* OptionalNumericInput: value, the side cache (line 104)
    opt_checked,    \* the checkbox of the nested ToggleInput: its checked state
    opt_input,      \* the nested NumericInput under <Show>: its maybe_val, or Unmounted
    opt_hist,       \* history: the last value entered, and what happened since
    map_outer,      \* composite map input: the bound record (signal, line 179)
    map_map,        \* composite map input: map, the local mirror (line 184)
    map_inputs,     \* the per-field NumericInput maybe_val states
    map_effect,     \* has the create_effect of line 187 had its first run
    enum_list,      \* MultiEnumInput: the bound Vec<E> (signal, line 424)
    sel_value,      \* EnumInput: the bound E (signal, line 370)
    sel_dom,        \* EnumInput: the value of the <select> control
    img_outer,      \* ImageInput: the bound Image (signal, line 480)
    img_image,      \* ImageInput: image, the local mirror (line 484)
    img_reads,      \* the spawned read tasks not yet completed (line 516)
    img_effect,     \* has the create_effect of line 487 had its first run
    img_count,      \* the number of read tasks spawned so far
    img_fin,        \* history: the tasks whose read completed, in completion order
    ev              \* history: the last event and the outer writes the widget made in it

numVars == <<num_value, num_maybe_val, num_last>>
optVars == <<opt_outer, opt_maybe_val, opt_cache, opt_checked, opt_input, opt_hist>>
mapVars == <<map_outer, map_map, map_inputs, map_effect>>
enumVars == <<enum_list>>
selVars == <<sel_value, sel_dom>>
imgVars == <<img_outer, img_image, img_reads, img_effect, img_count, img_fin>>
vars == <<numVars, optVars, mapVars, enumVars, selVars, imgVars, ev>>

(***************************************************************************)
(* Text of an input control: a sequence of characters.                     *)
(***************************************************************************)
Chars == {"0", "1", "5", "-", "x"}
Digits == {"0", "1", "2", "3", "4", "5", "6", "7", "8", "9"}

MaxLen == 2

\* The texts of at most n characters over chars.
RECURSIVE Texts(_, _)
Texts(chars, n) ==
    IF n = 0 THEN {<<>>}
    ELSE LET shorter == Texts(chars, n - 1)
         IN  shorter \cup {Append(s, c) : s \in {t \in shorter : Len(t) = n - 1}, c \in chars}

(***************************************************************************)
(* ParseResult<T> and Option<T>.                                           *)
(***************************************************************************)
Ok(v) == [ok |-> TRUE, val |-> v]
Err == [ok |-> FALSE]
Some(v) == [some |-> TRUE, val |-> v]
None == [some |-> FALSE]

(***************************************************************************)
(* str::parse::<T>() for T = i16 (line 71): an optional sign, then one or  *)
(* more decimal digits, the value within the range of T.                   *)
(***************************************************************************)
DigitVal(c) ==
    CASE c = "0" -> 0 [] c = "1" -> 1 [] c = "2" -> 2 [] c = "3" -> 3 [] c = "4" -> 4
      [] c = "5" -> 5 [] c = "6" -> 6 [] c = "7" -> 7 [] c = "8" -> 8 [] c = "9" -> 9

RECURSIVE FromDigits(_)
FromDigits(s) ==
    IF s = <<>> THEN 0
    ELSE 10 * FromDigits(SubSeq(s, 1, Len(s) - 1)) + DigitVal(s[Len(s)])

Parse(s) ==
    LET signed == s # <<>> /\ s[1] \in {"+", "-"}
        body == IF signed THEN Tail(s) ELSE s
        n == FromDigits(body)
        v == IF signed /\ s[1] = "-" THEN 0 - n ELSE n
    IN  IF body = <<>> \/ \E i \in 1..Len(body) : body[i] \notin Digits
        THEN Err
        ELSE IF v < 0 - 2^15 \/ v > 2^15 - 1 THEN Err ELSE Ok(v)

(***************************************************************************)
(* NumericInput (lines 46-84).                                             *)
(***************************************************************************)
\* The on:input handler, lines 70-77, as a function of the control's text:
\* the calls of the binding's setter it makes, and the new maybe_val.
OnInputNoCheck(s) ==
    LET res == Parse(s)
    IN  [writes |-> <<IF res.ok THEN res.val ELSE 0>>, maybe_val |-> res]

OnInputNoWrite(s) ==
    [writes |-> <<>>, maybe_val |-> Parse(s)]

OnInput(s) ==
    LET res == Parse(s)
    IN  [writes |-> IF res.ok THEN <<res.val>> ELSE <<>>, maybe_val |-> res]

\* <Show when=maybe_val.is_err()> (lines 78-80): is "Must be a number." shown.
ErrorShown(maybe_val) == ~maybe_val.ok

HostValues == {0, 7}

\* The component body, lines 61-62.
NumMount(seeds) ==
    /\ num_value \in seeds
    /\ num_maybe_val = Ok(num_value)
    /\ num_last = None

NumInput(s) ==
    LET h == OnInput(s)
    IN  /\ num_value' = IF h.writes # <<>> THEN h.writes[1] ELSE num_value
        /\ num_maybe_val' = h.maybe_val
        /\ num_last' = Some(s)
        /\ ev' = [op |-> "input", text |-> s, shown |-> ErrorShown(num_maybe_val),
                  writes |-> h.writes]
        /\ UNCHANGED <<optVars, mapVars, enumVars, selVars, imgVars>>

\* The host (or another widget on the same binding) sets the bound value;
\* maybe_val is set on line 76 alone.
NumHostWriteClears(v) ==
    /\ num_value' = v
    /\ num_maybe_val' = Ok(v)
    /\ UNCHANGED num_last
    /\ ev' = [op |-> "host", writes |-> <<>>]
    /\ UNCHANGED <<optVars, mapVars, enumVars, selVars, imgVars>>

NumHostWrite(v) ==
    /\ num_value' = v
    /\ UNCHANGED <<num_maybe_val, num_last>>
    /\ ev' = [op |-> "host", writes |-> <<>>]
    /\ UNCHANGED <<optVars, mapVars, enumVars, selVars, imgVars>>

NumNext ==
    \/ \E s \in Texts(Chars, MaxLen) : NumInput(s)
    \/ \E v \in HostValues : NumHostWrite(v)

(***************************************************************************)
(* OptionalNumericInput (lines 86-135) with its ToggleInput (543-565).     *)
(***************************************************************************)
Default == 0

Unmounted == [mounted |-> FALSE]

OptHostValues == {None, Some(7)}

\* read.get_untracked().unwrap_or_else(T::default), line 105.
UnwrapOrDefault(opt) == IF opt.some THEN opt.val ELSE Default

\* The component body, lines 102-106, and the first render of its view.
OptMount(seeds) ==
    /\ opt_outer \in seeds
    /\ opt_maybe_val = opt_outer
    /\ opt_cache = UnwrapOrDefault(opt_outer)
    /\ opt_checked = opt_maybe_val.some
    /\ opt_input = IF opt_maybe_val.some THEN Ok(opt_maybe_val.val) ELSE Unmounted
    /\ opt_hist = [seed |-> opt_outer, entered |-> None, failed |-> FALSE, off |-> FALSE]

\* The setter of the toggle's slice, lines 115-121.
ToggleSetterDefault(cache, val) == IF val THEN Some(Default) ELSE None

ToggleSetter(cache, val) == IF val THEN Some(cache) ELSE None

\* The setter of the numeric slice, lines 128-131: the new (maybe_val, value).
NumericSetterNoCache(cache, val) == [maybe_val |-> Some(val), value |-> cache]

NumericSetter(cache, val) == [maybe_val |-> Some(val), value |-> val]

\* The checkbox's on:change, lines 557-560, through the slice of lines 113-121;
\* <Show> (line 122) then mounts or removes the nested NumericInput, whose
\* maybe_val starts as Ok(read.get_untracked()) (line 62).
OptToggle ==
    LET checked == ~opt_checked
        new == ToggleSetter(opt_cache, checked)
    IN  /\ opt_checked' = checked
        /\ opt_maybe_val' = new
        /\ opt_input' = IF ~new.some THEN Unmounted
                         ELSE IF opt_maybe_val.some THEN opt_input
                         ELSE Ok(new.val)
        /\ opt_hist' = IF checked THEN opt_hist ELSE [opt_hist EXCEPT !.off = TRUE]
        /\ UNCHANGED <<opt_outer, opt_cache>>
        /\ ev' = [op |-> "toggle", checked |-> checked, writes |-> <<>>]
        /\ UNCHANGED <<numVars, mapVars, enumVars, selVars, imgVars>>

\* The nested NumericInput's on:input (lines 70-77) through the slice of
\* lines 126-131.  The control exists only while <Show> renders it.
OptInput(s) ==
    LET h == OnInput(s)
        set == NumericSetter(opt_cache, h.writes[1])
    IN  /\ opt_input # Unmounted
        /\ opt_maybe_val' = IF h.writes # <<>> THEN set.maybe_val ELSE opt_maybe_val
        /\ opt_cache' = IF h.writes # <<>> THEN set.value ELSE opt_cache
        /\ opt_input' = h.maybe_val
        /\ opt_hist' = IF h.writes # <<>>
                        THEN [opt_hist EXCEPT !.entered = Some(h.writes[1]),
                                              !.failed = FALSE, !.off = FALSE]
                        ELSE [opt_hist EXCEPT !.failed = TRUE]
        /\ UNCHANGED <<opt_outer, opt_checked>>
        /\ ev' = [op |-> "input", text |-> s, writes |-> <<>>]
        /\ UNCHANGED <<numVars, mapVars, enumVars, selVars, imgVars>>

OptHostWrite(v) ==
    /\ opt_outer' = v
    /\ UNCHANGED <<opt_maybe_val, opt_cache, opt_checked, opt_input, opt_hist>>
    /\ ev' = [op |-> "host", writes |-> <<>>]
    /\ UNCHANGED <<numVars, mapVars, enumVars, selVars, imgVars>>

OptNext ==
    \/ OptToggle
    \/ \E s \in Texts(Chars, MaxLen) : OptInput(s)
    \/ \E v \in OptHostValues : OptHostWrite(v)

(***************************************************************************)
(* The composite map inputs (lines 137-356), on ResourceMapInput (lines    *)
(* 177-219).  ByproductMapInput, OutputMapInput, FeedstockMapInput and     *)
(* MultiNumericInput are the same code over other field names or indices.  *)
(***************************************************************************)
Fields == {"land", "water", "electricity", "fuel"}

ZeroMap == [f \in Fields |-> 0]
MapHostValues == {ZeroMap, [f \in Fields |-> 7]}

MapChars == {"1", "x"}
MapMaxLen == 0
MapTexts == Texts(MapChars, MapMaxLen) \cup {<<"x">>, <<"1", "5", "0">>}

\* The setter of slice!(map.land) (lines 199, 204, 209, 214): set the field in place.
SetField(map, f, v) == [map EXCEPT ![f] = v]

\* A run of the effect of lines 187-189, write.set(map.get()): the calls of
\* the outer setter it makes.
MapSyncTwice(map) == <<map, map>>

MapSyncNone(map) == <<>>

MapSyncEffect(map) == <<map>>

\* The effect reads map alone (line 188), so a change of the outer binding
\* does not run it: the calls of the outer setter a host write triggers.
MapOnOuterSetRuns(map) == <<map>>

MapOnOuterSet(map) == <<>>

\* The value a binding holds after the calls ws of its setter.
AfterWrites(old, ws) == IF ws = <<>> THEN old ELSE ws[Len(ws)]

\* The component body, lines 183-189 and the four NumericInputs of the view;
\* the effect is created, its first run is queued.
MapMount(seeds) ==
    /\ map_outer \in seeds
    /\ map_map = map_outer
    /\ map_inputs = [f \in Fields |-> Ok(map_map[f])]
    /\ map_effect = FALSE

\* The first run of the effect, queued by create_effect at mount.
MapEffectFirstRun ==
    LET ws == MapSyncEffect(map_map)
    IN  /\ ~map_effect
        /\ map_effect' = TRUE
        /\ map_outer' = AfterWrites(map_outer, ws)
        /\ UNCHANGED <<map_map, map_inputs>>
        /\ ev' = [op |-> "effect", writes |-> ws]
        /\ UNCHANGED <<numVars, optVars, enumVars, selVars, imgVars>>

\* on:input of the NumericInput of field f (lines 70-77): the slice's setter
\* updates the mirror, which runs the effect.  User events come after the
\* queued first run of the effect.
MapFieldInput(f, s) ==
    LET h == OnInput(s)
        new == IF h.writes # <<>> THEN SetField(map_map, f, h.writes[1]) ELSE map_map
        ws == IF h.writes # <<>> THEN MapSyncEffect(new) ELSE <<>>
    IN  /\ map_effect
        /\ map_map' = new
        /\ map_outer' = AfterWrites(map_outer, ws)
        /\ map_inputs' = [map_inputs EXCEPT ![f] = h.maybe_val]
        /\ UNCHANGED map_effect
        /\ ev' = [op |-> "input", field |-> f, text |-> s, writes |-> ws]
        /\ UNCHANGED <<numVars, optVars, enumVars, selVars, imgVars>>

\* The host sets the outer binding.
MapHostWrite(m) ==
    LET ws == MapOnOuterSet(map_map)
    IN  /\ map_outer' = AfterWrites(m, ws)
        /\ UNCHANGED <<map_map, map_inputs, map_effect>>
        /\ ev' = [op |-> "host", writes |-> ws]
        /\ UNCHANGED <<numVars, optVars, enumVars, selVars, imgVars>>

MapNext ==
    \/ MapEffectFirstRun
    \/ \E f \in Fields, s \in MapTexts : MapFieldInput(f, s)
    \/ \E m \in MapHostValues : MapHostWrite(m)

(***************************************************************************)
(* MultiEnumInput (lines 411-476).                                         *)
(***************************************************************************)
Variants == {"A", "B", "C"}

MaxList == 3

\* The lists of at most n variants.
RECURSIVE Lists(_)
Lists(n) ==
    IF n = 0 THEN {<<>>}
    ELSE LET shorter == Lists(n - 1)
         IN  shorter \cup {Append(l, v) : l \in {k \in shorter : Len(k) = n - 1}, v \in Variants}

Contains(list, var) == \E i \in 1..Len(list) : list[i] = var

\* current.retain(|v| v != &var), line 448.
RECURSIVE RemoveFirst(_, _)
RemoveFirst(list, var) ==
    IF list = <<>> THEN <<>>
    ELSE IF Head(list) = var THEN Tail(list)
    ELSE <<Head(list)>> \o RemoveFirst(Tail(list), var)

RECURSIVE Retain(_, _)
Retain(list, var) ==
    IF list = <<>> THEN <<>>
    ELSE IF Head(list) = var THEN Retain(Tail(list), var)
    ELSE <<Head(list)>> \o Retain(Tail(list), var)

\* The on:click handler of a variant's element, lines 445-453: the list written.
Clicked(list, var) ==
    IF Contains(list, var) THEN Retain(list, var) ELSE Append(list, var)

EnumMount(seeds) == enum_list \in seeds

EnumClick(var) ==
    /\ enum_list' = Clicked(enum_list, var)
    /\ ev' = [op |-> "click", var |-> var, pre |-> enum_list,
              writes |-> <<Clicked(enum_list, var)>>]
    /\ UNCHANGED <<numVars, optVars, mapVars, selVars, imgVars>>

EnumNext ==
    \/ \E var \in Variants : EnumClick(var)

(***************************************************************************)
(* EnumInput (lines 358-405).  E is a type of hes_engine: its variants,    *)
(* its Into<&'static str> and its FromStr are not in inputs.rs; they are   *)
(* modelled as the design describes them, option labels generated from the *)
(* enumeration they are parsed against.                                    *)
(***************************************************************************)
NumVariants == 9

LabelNames ==
    <<"Solar", "Wind", "Hydro", "Coal", "Oil", "Gas", "Nuclear", "Biomass",
      "Geothermal", "Tidal", "Wave", "Fusion">>

\* E::iter(), line 381: the variants, by discriminant.
EVariants == 0..(NumVariants - 1)

\* let label: &'static str = var.into(), line 383.
Label(var) == LabelNames[var + 1]

\* <E as FromStr>::from_str, line 397.
FromStr(s) ==
    IF \E var \in EVariants : Label(var) = s
    THEN Ok(CHOOSE var \in EVariants : Label(var) = s)
    ELSE Err

\* A value of the control that no option generated on lines 381-388 carries.
ForeignValues == {"?"}

\* The on:change handler, lines 395-398, as a function of the control's
\* value: the calls of the setter it makes, and whether the unwrap panics.
OnChangeOrFirst(value) ==
    LET res == FromStr(value)
    IN  [writes |-> IF res.ok THEN <<res.val>> ELSE <<0>>, panicked |-> FALSE]

OnChange(value) ==
    LET res == FromStr(value)
    IN  [writes |-> IF res.ok THEN <<res.val>> ELSE <<>>, panicked |-> ~res.ok]

\* The component body, lines 377-389: the option of the current value is
\* rendered selected.
SelMount(seeds) ==
    /\ sel_value \in seeds
    /\ sel_dom = Label(sel_value)

\* The user picks an option; on:change, lines 395-398.
SelChange(value) ==
    LET h == OnChange(value)
    IN  /\ sel_dom' = value
        /\ sel_value' = AfterWrites(sel_value, h.writes)
        /\ ev' = [op |-> "change", value |-> value, panicked |-> h.panicked,
                  writes |-> h.writes]
        /\ UNCHANGED <<numVars, optVars, mapVars, enumVars, imgVars>>

\* The host sets the bound value; the options are not rendered again
\* (read.get_untracked(), line 380).
SelHostWrite(var) ==
    /\ sel_value' = var
    /\ UNCHANGED sel_dom
    /\ ev' = [op |-> "host", writes |-> <<>>]
    /\ UNCHANGED <<numVars, optVars, mapVars, enumVars, imgVars>>

SelNext ==
    \/ \E var \in EVariants : SelChange(Label(var))
    \/ \E value \in ForeignValues : SelChange(value)
    \/ \E var \in EVariants : SelHostWrite(var)

(***************************************************************************)
(* ImageInput (lines 478-529) and read_file (lines 531-541).               *)
(***************************************************************************)
\* hes_engine::flavor::ImageData, as matched on lines 494 and 497.
FileRef(fname) == [tag |-> "File", fname |-> fname]
Data(bytes, mime) == [tag |-> "Data", bytes |-> bytes, mime |-> mime]

\* The files the user can pick: their bytes and their declared type.
Files ==
    { [bytes |-> <<137, 80>>, type |-> "image/png"],
      [bytes |-> <<71, 73>>, type |-> "image/gif"],
      [bytes |-> <<255, 216>>, type |-> "image/png"] }

ImgHostValues ==
    { [data |-> FileRef("a.png"), attribution |-> "x"],
      [data |-> Data(<<82>>, "image/webp"), attribution |-> "y"] }

MaxReads == 2

\* read_file, lines 531-541: the bytes of the file.
ReadFile(file) == file.bytes

\* The task spawned on lines 515-522: the file moved into it and the MIME
\* type read from the file before it is spawned.
SpawnedTask(seq, file) == [seq |-> seq, file |-> file, mime |-> file.type]

\* The mime a completing task stores (line 520): the one it captured.
LastSelectedMime(i) == img_reads[Len(img_reads)].mime

TaskMime(i) == img_reads[i].mime

\* update!(|image| image.data = ImageData::Data { bytes, mime }), lines 518-521.
SetDataWhole(image, bytes, mime) == [data |-> Data(bytes, mime), attribution |-> ""]

SetData(image, bytes, mime) == [image EXCEPT !.data = Data(bytes, mime)]

\* A run of the effect of lines 487-489, write.set(image.get()).
ImgSyncNone(image) == <<>>

ImgSyncEffect(image) == <<image>>

\* The sequence s without its i-th element.
RemoveAt(s, i) == SubSeq(s, 1, i - 1) \o SubSeq(s, i + 1, Len(s))

\* The component body, lines 482-489.
ImgMount(seeds) ==
    /\ img_outer \in seeds
    /\ img_image = img_outer
    /\ img_reads = <<>>
    /\ img_effect = FALSE
    /\ img_count = 0
    /\ img_fin = <<>>

\* The first run of the effect, queued by create_effect at mount.
ImgEffectFirstRun ==
    LET ws == ImgSyncEffect(img_image)
    IN  /\ ~img_effect
        /\ img_effect' = TRUE
        /\ img_outer' = AfterWrites(img_outer, ws)
        /\ UNCHANGED <<img_image, img_reads, img_count, img_fin>>
        /\ ev' = [op |-> "effect", writes |-> ws]
        /\ UNCHANGED <<numVars, optVars, mapVars, enumVars, selVars>>

\* on:input with a file chosen, lines 510-523: the read is started, the
\* handler returns.
ImgSelect(file) ==
    /\ img_effect
    /\ img_count < MaxReads
    /\ img_count' = img_count + 1
    /\ img_reads' = Append(img_reads, SpawnedTask(img_count + 1, file))
    /\ UNCHANGED <<img_outer, img_image, img_effect, img_fin>>
    /\ ev' = [op |-> "select", file |-> file, writes |-> <<>>]
    /\ UNCHANGED <<numVars, optVars, mapVars, enumVars, selVars>>

\* on:input with no file chosen (files.get(0) is None, line 514).
ImgSelectNoneClears ==
    /\ img_effect
    /\ img_image' = [img_image EXCEPT !.data = FileRef("")]
    /\ img_outer' = img_image'
    /\ UNCHANGED <<img_reads, img_effect, img_count, img_fin>>
    /\ ev' = [op |-> "select_none", writes |-> <<img_image'>>]
    /\ UNCHANGED <<numVars, optVars, mapVars, enumVars, selVars>>

ImgSelectNone ==
    /\ img_effect
    /\ UNCHANGED imgVars
    /\ ev' = [op |-> "select_none", writes |-> <<>>]
    /\ UNCHANGED <<numVars, optVars, mapVars, enumVars, selVars>>

\* The read of the i-th task in flight completes: the rest of the task,
\* lines 517-521, and the effect the update runs.
ImgReadDone(i) ==
    LET task == img_reads[i]
        new == SetData(img_image, ReadFile(task.file), TaskMime(i))
        ws == ImgSyncEffect(new)
    IN  /\ img_image' = new
        /\ img_outer' = AfterWrites(img_outer, ws)
        /\ img_reads' = RemoveAt(img_reads, i)
        /\ img_fin' = Append(img_fin, task)
        /\ UNCHANGED <<img_effect, img_count>>
        /\ ev' = [op |-> "read_done", file |-> task.file, writes |-> ws]
        /\ UNCHANGED <<numVars, optVars, mapVars, enumVars, selVars>>

\* The read of the i-th task fails: the unwrap of line 535 ends the task.
ImgReadFails(i) ==
    /\ img_reads' = RemoveAt(img_reads, i)
    /\ UNCHANGED <<img_outer, img_image, img_effect, img_count, img_fin>>
    /\ ev' = [op |-> "read_failed", file |-> img_reads[i].file, writes |-> <<>>]
    /\ UNCHANGED <<numVars, optVars, mapVars, enumVars, selVars>>

ImgHostWrite(img) ==
    /\ img_outer' = img
    /\ UNCHANGED <<img_image, img_reads, img_effect, img_count, img_fin>>
    /\ ev' = [op |-> "host", writes |-> <<>>]
    /\ UNCHANGED <<numVars, optVars, mapVars, enumVars, selVars>>

ImgNext ==
    \/ ImgEffectFirstRun
    \/ \E file \in Files : ImgSelect(file)
    \/ ImgSelectNone
    \/ \E i \in 1..Len(img_reads) : ImgReadDone(i)
    \/ \E i \in 1..Len(img_reads) : ImgReadFails(i)
    \/ \E img \in ImgHostValues : ImgHostWrite(img)

(***************************************************************************)
(* The specifications: one widget mounted on a binding the host seeded,    *)
(* and its events; the other widgets stay as mounted.                      *)
(***************************************************************************)
Mounted == [op |-> "mount", writes |-> <<>>]

InitNumeric ==
    /\ NumMount(HostValues) /\ OptMount({None}) /\ MapMount({ZeroMap})
    /\ EnumMount({<<>>}) /\ SelMount({0}) /\ ImgMount({[data |-> FileRef("a.png"), attribution |-> "x"]})
    /\ ev = Mounted

InitOptional ==
    /\ NumMount({0}) /\ OptMount(OptHostValues) /\ MapMount({ZeroMap})
    /\ EnumMount({<<>>}) /\ SelMount({0}) /\ ImgMount({[data |-> FileRef("a.png"), attribution |-> "x"]})
    /\ ev = Mounted

InitMap ==
    /\ NumMount({0}) /\ OptMount({None}) /\ MapMount(MapHostValues)
    /\ EnumMount({<<>>}) /\ SelMount({0}) /\ ImgMount({[data |-> FileRef("a.png"), attribution |-> "x"]})
    /\ ev = Mounted

InitMultiEnum ==
    /\ NumMount({0}) /\ OptMount({None}) /\ MapMount({ZeroMap})
    /\ EnumMount(Lists(MaxList)) /\ SelMount({0})
    /\ ImgMount({[data |-> FileRef("a.png"), attribution |-> "x"]})
    /\ ev = Mounted

InitEnum ==
    /\ NumMount({0}) /\ OptMount({None}) /\ MapMount({ZeroMap})
    /\ EnumMount({<<>>}) /\ SelMount(EVariants)
    /\ ImgMount({[data |-> FileRef("a.png"), attribution |-> "x"]})
    /\ ev = Mounted

InitImage ==
    /\ NumMount({0}) /\ OptMount({None}) /\ MapMount({ZeroMap})
    /\ EnumMount({<<>>}) /\ SelMount({0}) /\ ImgMount(ImgHostValues)
    /\ ev = Mounted

SpecNumeric == InitNumeric /\ [][NumNext]_vars
SpecOptional == InitOptional /\ [][OptNext]_vars
SpecMap == InitMap /\ [][MapNext]_vars
SpecMultiEnum == InitMultiEnum /\ [][EnumNext]_vars
SpecEnum == InitEnum /\ [][SelNext]_vars

\* A mirror-synchronised widget under user events alone: the host does not
\* write the outer binding after mount.
MapUserNext ==
    \/ MapEffectFirstRun
    \/ \E f \in Fields, s \in MapTexts : MapFieldInput(f, s)

ImgUserNext ==
    \/ ImgEffectFirstRun
    \/ \E file \in Files : ImgSelect(file)
    \/ ImgSelectNone
    \/ \E i \in 1..Len(img_reads) : ImgReadDone(i)
    \/ \E i \in 1..Len(img_reads) : ImgReadFails(i)

SpecMapUser == InitMap /\ [][MapUserNext]_vars
SpecImageUser == InitImage /\ [][ImgUserNext]_vars
SpecImage == InitImage /\ [][ImgNext]_vars

(***************************************************************************)
(* Properties.                                                             *)
(***************************************************************************)
\* The number of times x occurs in list.
Count(list, x) == Cardinality({i \in 1..Len(list) : list[i] = x})

NoDuplicates(list) == \A x \in Variants : Count(list, x) <= 1

\* C1: OptionalNumericInput writes through the host's binding: after the
\* toggle is switched off the outer binding is None; after it is switched on,
\* or a number is entered, the outer binding is Some(value).
C1_WritesThrough ==
    /\ (ev.op = "toggle" /\ ~ev.checked) => opt_outer = None
    /\ (ev.op = "toggle" /\ ev.checked) => (opt_outer.some /\ opt_outer = opt_maybe_val)
    /\ (ev.op = "input" /\ Parse(ev.text).ok) => opt_outer = Some(Parse(ev.text).val)

\* C2: an input event whose text does not parse calls no setter, leaves the
\* bound value as it was, records a failure in maybe_val and shows the
\* "Must be a number." message.
C2_FailedParse ==
    [][(ev'.op = "input" /\ ~Parse(ev'.text).ok)
        => /\ ev'.writes = <<>>
           /\ num_value' = num_value
           /\ num_maybe_val' = Err
           /\ ErrorShown(num_maybe_val')]_vars

C2_Witness ==
    /\ ev.op = "input" /\ ev.text = <<"1", "x">>
    /\ num_value = 7
    /\ ErrorShown(num_maybe_val)

\* C3: an input event whose text parses leaves the bound value equal to the
\* parsed number and no message shown, whatever the state before it,
\* a shown message included.
C3_SuccessfulParse ==
    [][(ev'.op = "input" /\ Parse(ev'.text).ok)
        => /\ num_value' = Parse(ev'.text).val
           /\ ~ErrorShown(num_maybe_val')]_vars

C3_Witness ==
    /\ ev.op = "input" /\ ev.text = <<"-", "5">> /\ ev.shown
    /\ num_value = 0 - 5
    /\ ~ErrorShown(num_maybe_val)

\* C4: a successful edit of field F to v leaves the outer binding equal to
\* the record it held immediately before the edit with only F replaced by v.
C4_FieldEditFrame ==
    [][(ev'.op = "input" /\ Parse(ev'.text).ok)
        => map_outer' = [map_outer EXCEPT ![ev'.field] = Parse(ev'.text).val]]_vars

\* C5: a field edit whose text parses makes exactly one call of the outer
\* setter, with the whole mirror record updated in that field; one whose text
\* does not parse makes none.
C5_OneWritePerEdit ==
    [][ev'.op = "input"
        => IF Parse(ev'.text).ok
           THEN /\ ev'.writes = <<[map_map EXCEPT ![ev'.field] = Parse(ev'.text).val]>>
                /\ map_outer' = ev'.writes[1]
           ELSE /\ ev'.writes = <<>>
                /\ map_outer' = map_outer]_vars

C5_Witness ==
    /\ ev.op = "input" /\ ev.field = "water" /\ ev.text = <<"1", "5", "0">>
    /\ ev.writes = <<[ZeroMap EXCEPT !["water"] = 150]>>
    /\ map_outer = [ZeroMap EXCEPT !["water"] = 150]

\* C6: every call of the outer setter by the widget is made in a user event
\* (input, change, click) or at the completion of a file read.
C6_WritesOnlyOnUserEvents ==
    ev.writes # <<>> => ev.op \in {"input", "change", "click", "read_done"}

\* C6, amended: every call of the outer setter by the widget is made in a
\* user event, except in the first run of the synchronisation effect, which
\* happens once after mount and writes the mirror's value.
C6_WritesOnEventsOrFirstRun ==
    [][ev'.writes # <<>>
        => \/ ev'.op \in {"input", "change", "click", "read_done"}
           \/ /\ ev'.op = "effect"
              /\ ~map_effect /\ map_effect'
              /\ ev'.writes = <<map_map>>
              /\ map_map' = map_map]_vars

C6_Witness ==
    /\ ev.op = "effect"
    /\ ev.writes = <<map_map>>
    /\ map_outer = map_map

\* C7: a click on a variant not in the list appends it; a click on a variant
\* in the list removes every occurrence of it; the order of the others is
\* kept; the list written contains each variant at most once.
C7_ClickSemantics ==
    ev.op = "click"
        => /\ enum_list = IF Count(ev.pre, ev.var) = 0
                          THEN ev.pre \o <<ev.var>>
                          ELSE SelectSeq(ev.pre, LAMBDA x : x # ev.var)
           /\ ev.writes = <<enum_list>>
           /\ NoDuplicates(enum_list)

\* C7, amended: as C7, but the list written contains the clicked variant at
\* most once and every other variant as often as the list did before; a
\* list without duplicates stays without duplicates.
C7_ClickKeepsOthers ==
    ev.op = "click"
        => /\ enum_list = IF Count(ev.pre, ev.var) = 0
                          THEN ev.pre \o <<ev.var>>
                          ELSE SelectSeq(ev.pre, LAMBDA x : x # ev.var)
           /\ ev.writes = <<enum_list>>
           /\ Count(enum_list, ev.var) = (IF Count(ev.pre, ev.var) = 0 THEN 1 ELSE 0)
           /\ \A x \in Variants \ {ev.var} : Count(enum_list, x) = Count(ev.pre, x)
           /\ NoDuplicates(ev.pre) => NoDuplicates(enum_list)

C7_Witness ==
    /\ ev.op = "click" /\ ev.var = "A"
    /\ ev.pre = <<"A", "B", "A">>
    /\ enum_list = <<"B">>

\* C8: after a value v was entered with the toggle on, toggling off and on
\* again yields Some(v); a failed input in between changes nothing.
C8_RoundTrip ==
    (ev.op = "toggle" /\ ev.checked /\ opt_hist.entered.some /\ opt_hist.off)
        => opt_maybe_val = Some(opt_hist.entered.val)

C8_Witness ==
    /\ ev.op = "toggle" /\ ev.checked
    /\ opt_hist.entered = Some(15) /\ opt_hist.failed /\ opt_hist.off
    /\ opt_maybe_val = Some(15)

\* C9: the completion of the only read in flight leaves the mirror and the
\* outer binding both holding the inline data with the file's bytes and the
\* file's declared type.
C9_SingleSelection ==
    [][(ev'.op = "read_done" /\ Len(img_reads) = 1)
        => /\ img_image'.data = Data(ev'.file.bytes, ev'.file.type)
           /\ img_outer' = img_image']_vars

C9_Witness ==
    /\ ev.op = "read_done" /\ img_count = 1 /\ img_reads = <<>>
    /\ img_image.data = Data(<<71, 73>>, "image/gif")
    /\ img_outer = img_image

\* C10: with reads overlapping, every completion updates the mirror, so the
\* image is that of the read that completed last, in whatever order the files
\* were selected, its bytes and its type from the same file.
C10_LastToCompleteWins ==
    img_fin # <<>>
        => LET last == img_fin[Len(img_fin)].file
           IN  img_image.data = Data(last.bytes, last.type)

C10_Witness ==
    /\ Len(img_fin) = 2
    /\ img_fin[1].seq = 2 /\ img_fin[2].seq = 1
    /\ img_fin[1].file.type # img_fin[2].file.type
    /\ img_image.data = Data(img_fin[2].file.bytes, img_fin[2].file.type)

\* C11: the mirror is set only when a read completes, then to the inline
\* data variant, and each spawned read completes at most once; a selection,
\* with a file or with none, does not set it by itself; once the mirror holds
\* inline data no step sets it back to a file reference.
C11_SwitchOncePerSelection ==
    [][/\ img_image' # img_image => ev'.op = "read_done"
       /\ ev'.op = "read_done"
            => /\ img_image'.data.tag = "Data"
               /\ Len(img_fin') = Len(img_fin) + 1
               /\ \A i \in 1..Len(img_fin) :
                     img_fin[i].seq # img_fin'[Len(img_fin')].seq
               /\ \A i \in 1..Len(img_reads') :
                     img_reads'[i].seq # img_fin'[Len(img_fin')].seq
       /\ ev'.op \in {"select", "select_none"} => img_image' = img_image
       /\ img_image.data.tag = "Data" => img_image'.data.tag = "Data"]_vars

C11_Witness ==
    /\ ev.op = "select_none"
    /\ Len(img_fin) = 1
    /\ img_image.attribution = "x"
    /\ img_image.data.tag = "Data"

\* C12: a change event whose value parses as a variant of E writes exactly
\* that variant, so picking the option generated from variant x writes x; a
\* value that does not parse aborts the handler and the binding is not
\* written.
C12_ChangeWritesVariant ==
    [][ev'.op = "change"
        => /\ IF FromStr(ev'.value).ok
              THEN /\ ~ev'.panicked
                   /\ ev'.writes = <<FromStr(ev'.value).val>>
                   /\ sel_value' = FromStr(ev'.value).val
              ELSE /\ ev'.panicked
                   /\ ev'.writes = <<>>
                   /\ sel_value' = sel_value
           /\ \A x \in EVariants : ev'.value = Label(x) => sel_value' = x]_vars

C12_Witness ==
    /\ ev.op = "change" /\ ev.value = "Coal" /\ ~ev.panicked
    /\ sel_value = 3
    /\ ev.writes = <<3>>

\* C13: no message is shown at mount, and in every state the message is
\* shown exactly when the widget's most recent input event failed to parse;
\* a change of the bound value by the host neither shows nor clears it.
C13_ErrorFollowsLastInput ==
    ErrorShown(num_maybe_val) <=> (num_last.some /\ ~Parse(num_last.val).ok)

C13_Witness ==
    /\ ev.op = "host"
    /\ num_value = 7
    /\ num_last = Some(<<"x">>)
    /\ ErrorShown(num_maybe_val)

\* C14: with no host write to the outer binding since mount, once the
\* synchronisation effect has had its first run and after every user event,
\* the outer binding equals the local mirror.
C14_MirrorSynchronised ==
    map_effect => map_outer = map_map

C14_Witness ==
    /\ ev.op = "input" /\ ev.field = "fuel" /\ ev.text = <<"x">>
    /\ map_map = [f \in Fields |-> IF f = "land" THEN 150 ELSE 7]
    /\ map_outer = map_map

\* C15: the local optional value is None or Some of the side cache; until a
\* numeric input parses, the cache is the value bound at mount, or the default
\* when that was absent; the cache changes only on a successfully parsed
\* numeric input, to the parsed value; so the first toggle-on of a widget
\* mounted absent yields Some(default).
C15_CacheInvariant ==
    /\ [](/\ opt_maybe_val = None \/ opt_maybe_val = Some(opt_cache)
          /\ ~opt_hist.entered.some => opt_cache = UnwrapOrDefault(opt_hist.seed)
          /\ (/\ ev.op = "toggle" /\ ev.checked
              /\ opt_hist.seed = None /\ ~opt_hist.entered.some)
                => opt_maybe_val = Some(Default))
    /\ [][opt_cache' # opt_cache =>
            /\ ev'.op = "input" /\ Parse(ev'.text).ok
            /\ opt_cache' = Parse(ev'.text).val]_vars

C15_Witness ==
    /\ ev.op = "toggle" /\ ev.checked
    /\ opt_hist.seed = None /\ ~opt_hist.entered.some /\ opt_hist.failed
    /\ opt_outer = Some(7)
    /\ opt_maybe_val = Some(Default)

\* C16: the completion of a file read replaces only the data field: every
\* other field of the mirror, and of the value written to the outer binding,
\* keeps the value the mirror held before the completion.
C16_ReadReplacesOnlyData ==
    [][ev'.op = "read_done" =>
        /\ DOMAIN img_image' = DOMAIN img_image
        /\ \A k \in DOMAIN img_image \ {"data"} :
              /\ img_image'[k] = img_image[k]
              /\ \A j \in 1..Len(ev'.writes) : ev'.writes[j][k] = img_image[k]
        /\ \A j \in 1..Len(ev'.writes) : ev'.writes[j].data = img_image'.data
        /\ img_image'.data.tag = "Data"]_vars

C16_Witness ==
    /\ ev.op = "read_done" /\ ev.file.type = "image/gif"
    /\ ev.writes = <<img_image>>
    /\ img_image = [data |-> Data(<<71, 73>>, "image/gif"), attribution |-> "y"]
    /\ img_outer = img_image
    /\ Len(img_fin) = 2

\* The same of ImageInput (the effect of lines 487-489).
ImgMirrorSynchronised ==
    img_effect => img_outer = img_image
====
